---- MODULE Spec2Model ----
(***************************************************************************)
(* Model of loc_image_retriever/retriever.py: the filename builder         *)
(* (create_filename), the path resolver (create_filepath), the URL builder *)
(* (create_url) and the retrieval loop of main.                            *)
(*                                                                         *)
(* Python strings are modelled as sequences of one-character strings, so   *)
(* that zfill, str.replace, '-'.join and Path.with_suffix are computed     *)
(* character by character.  None and '' (both falsy in the code's tests)   *)
(* are the empty sequence; an absent year is 0 (falsy as well).            *)
(***************************************************************************)
EXTENDS Integers, Sequences, FiniteSets, TLC

\* ------------------------------------------------------------------ bounds

\* Largest number of path segments of a collection.
MaxSegments == 2
\* Largest 'stop' of an index range.
MaxStop == 2
\* How many non-2xx responses the image server gives in one run, at most.
MaxHttpErrors == 1

\* --------------------------------------------------------- string literals

s_log == <<"l","o","g">>
s_jpg == <<"j","p","g">>
s_tif == <<"t","i","f">>
s_gif == <<"g","i","f">>
s_jp2 == <<"j","p","2">>
s_png == <<"p","n","g">>
s_vol == <<"v","o","l","_">>
s_pct == <<"p","c","t",":">>
s_atlas == <<"a","t","l","a","s">>
s_ward1 == <<"w","a","r","d","1">>
s_st_louis == <<"s","t",".","l","o","u","i","s">>
s_https == <<"h","t","t","p","s">>
s_tile == <<"t","i","l","e">>
s_loc_gov == <<"l","o","c",".","g","o","v">>
s_iiif == <<"i","m","a","g","e","-","s","e","r","v","i","c","e","s","/","i","i","i","f","/","s","e","r","v","i","c","e">>
s_storage == <<"s","t","o","r","a","g","e","-","s","e","r","v","i","c","e","s","/","s","e","r","v","i","c","e">>
s_g3290 == <<"g","3","2","9","0",":","g","3","2","9","0">>
s_gmd == <<"g","m","d">>
s_ct000 == <<"c","t","0","0","0">>
s_full == <<"f","u","l","l">>
s_default == <<"d","e","f","a","u","l","t">>
s_out == <<"o","u","t">>

\* ------------------------------------------------- Python string built-ins

Digit(d) == CASE d = 0 -> "0" [] d = 1 -> "1" [] d = 2 -> "2" [] d = 3 -> "3"
              [] d = 4 -> "4" [] d = 5 -> "5" [] d = 6 -> "6" [] d = 7 -> "7"
              [] d = 8 -> "8" [] d = 9 -> "9"

\* str(n) of a non-negative int: its decimal digits.
RECURSIVE str(_)
str(n) == IF n < 10 THEN <<Digit(n)>> ELSE str(n \div 10) \o <<Digit(n % 10)>>

Zeros(k) == [j \in 1..k |-> "0"]

\* s.zfill(width): zeros are inserted after a leading sign; a string already
\* as long as width is returned unchanged.
zfill(s, width) ==
    IF Len(s) >= width THEN s
    ELSE IF Len(s) > 0 /\ s[1] \in {"+", "-"}
         THEN <<s[1]>> \o Zeros(width - Len(s)) \o Tail(s)
         ELSE Zeros(width - Len(s)) \o s

\* s.replace(old, new) for one-character old and new.
replace(s, old, new) == [j \in 1..Len(s) |-> IF s[j] = old THEN new ELSE s[j]]

\* sep.join(segments)
RECURSIVE join(_, _)
join(segments, sep) ==
    IF Len(segments) = 0 THEN <<>>
    ELSE IF Len(segments) = 1 THEN segments[1]
    ELSE segments[1] \o <<sep>> \o join(Tail(segments), sep)

\* s.rfind(ch), as a 1-based position; 0 when ch does not occur.
rfind(s, ch) ==
    LET hits == {j \in 1..Len(s) : s[j] = ch}
    IN IF hits = {} THEN 0 ELSE CHOOSE j \in hits : \A h \in hits : h <= j

\* PurePath.suffix of a one-component path: the text from the last '.', unless
\* that '.' is the first or the last character of the name.
suffix(name) ==
    LET j == rfind(name, ".")
    IN IF 1 < j /\ j < Len(name) THEN SubSeq(name, j, Len(name)) ELSE <<>>

\* Path(name).with_suffix(new_suffix): an existing suffix is REPLACED.
with_suffix(name, new_suffix) ==
    SubSeq(name, 1, Len(name) - Len(suffix(name))) \o new_suffix

\* ---------------------------------------------------------- create_filename

\* Lines 25-31: the segments shared by log and image file names.
base_segments(name_segments) ==
    LET s0 == name_segments.name
        s1 == IF name_segments.year # 0
              THEN Append(s0, str(name_segments.year)) ELSE s0
    IN IF name_segments.vol # <<>>
       THEN Append(s1, s_vol \o name_segments.vol) ELSE s1

\* Lines 37-44: the segments added for a non-log file.
image_segments(name_segments, part, num) ==
    LET s2 == base_segments(name_segments)
        s3 == IF name_segments.vol # <<>>
              THEN Append(s2, s_vol \o name_segments.vol) ELSE s2
        s4 == IF part # <<>> THEN Append(s3, part) ELSE s3
    IN IF num # <<>>
       THEN Append(s4, IF Len(num) < 4 THEN zfill(num, 4) ELSE num)
       ELSE s4

create_filename(name_segments, part, num, format) ==
    IF format = s_log
    THEN with_suffix(join(base_segments(name_segments), "-"), <<".">> \o format)
    ELSE with_suffix(join(image_segments(name_segments, part, num), "-"),
                     <<".">> \o format)

\* ---------------------------------------------------------- create_filepath

\* Path(Path.cwd(), output_path, filename): the directory and the final
\* component (Path.name) of the result.
create_filepath(output_path, filename) ==
    [parent |-> output_path, name |-> filename]

\* --------------------------------------------------------------- create_url

RawFormats == {s_gif, s_jp2, s_tif}

\* Lines 81-83: scheme and host.
url_host(config) ==
    config.protocol \o <<":","/","/">> \o config.subdomain \o <<".">> \o config.domain

\* A mutant of raw_url: gmd is passed through without the substitution.
raw_url_verbatim(parser, config, gmd, id_prefix, num) ==
    url_host(config)
        \o <<"/">> \o config.service_path[parser.format]
        \o <<"/">> \o gmd
        \o <<"/">> \o id_prefix \o num
        \o <<".">> \o parser.format

\* Lines 80-88: the raw-format scheme.
raw_url(parser, config, gmd, id_prefix, num) ==
    url_host(config)
        \o <<"/">> \o config.service_path[parser.format]
        \o <<"/">> \o replace(gmd, ":", "/")
        \o <<"/">> \o id_prefix \o num
        \o <<".">> \o parser.format

\* Lines 97-101: region, size, rotation, quality and format.
tiled_parameters(parser) ==
    <<"/">> \o parser.region
        \o <<"/">> \o s_pct \o str(parser.size)
        \o <<"/">> \o str(parser.rotation_degrees)
        \o <<"/">> \o parser.quality
        \o <<".">> \o parser.format

\* A mutant of tiled_url: gmd gets the raw scheme's ':' -> '/' substitution.
tiled_url_slashed(parser, config, gmd, id_prefix, num) ==
    url_host(config)
        \o <<"/">> \o config.service_path[parser.format]
        \o <<":">> \o replace(gmd, ":", "/")
        \o <<":">> \o id_prefix \o num
        \o tiled_parameters(parser)

\* Lines 90-102: the tiled-image scheme.
tiled_url(parser, config, gmd, id_prefix, num) ==
    url_host(config)
        \o <<"/">> \o config.service_path[parser.format]
        \o <<":">> \o gmd
        \o <<":">> \o id_prefix \o num
        \o tiled_parameters(parser)

\* config['service_path'][parser.format] raises KeyError.
create_url_raises(parser, config) ==
    parser.format \notin DOMAIN config.service_path

create_url(parser, config, gmd, id_prefix, num) ==
    IF parser.format \in RawFormats
    THEN raw_url(parser, config, gmd, id_prefix, num)
    ELSE tiled_url(parser, config, gmd, id_prefix, num)

\* -------------------------------------------------------------------- state

VARIABLES
    pc,         \* position in main, or "idle" when only a builder is exercised
    parser,     \* the parsed command line (argparse namespace)
    config,     \* the YAML document read from ./config.yml
    seg,        \* position of the outer loop in map_config['path_segments']
    i,          \* the inner loop's index
    num,        \* the index token of the current iteration
    url,        \* the URL of the current iteration
    response,   \* the response of the current iteration's GET
    filepath,   \* the destination of the current iteration
    logfile,    \* the path handed to logging.FileHandler
    trace,      \* every log line, GET and file write so far, in order
    err,        \* the exception that ended the run, "none" otherwise
    calls       \* the last two direct calls of a builder (args and result)

vars == <<pc, parser, config, seg, i, num, url, response, filepath, logfile,
          trace, err, calls>>

NoPath == [parent |-> <<>>, name |-> <<>>]
NoResponse == [status_code |-> 0]

\* ------------------------------------------------------------------- inputs

Parser(key, format) ==
    [key |-> key, output |-> s_out, format |-> format, region |-> s_full,
     size |-> 100, rotation_degrees |-> 0, quality |-> s_default]

ServicePaths == [f \in {s_jpg, s_tif} |-> IF f = s_jpg THEN s_iiif ELSE s_storage]
\* A service-path mapping in which 'tif' is not configured.
ServicePathsNoTif == [f \in {s_jpg} |-> s_iiif]

FilenameSegments(name, year, vol) == [name |-> name, year |-> year, vol |-> vol]

AtlasSegments == FilenameSegments(<<s_atlas, s_ward1>>, 1925, <<"2">>)

PathSegment(gmd, id_prefix, part, start, stop, zfill_width) ==
    [gmd |-> gmd, id_prefix |-> id_prefix, part |-> part,
     index |-> [start |-> start, stop |-> stop, zfill_width |-> zfill_width]]

Config(service_path, filename_segments, path_segments) ==
    [protocol |-> s_https, subdomain |-> s_tile, domain |-> s_loc_gov,
     service_path |-> service_path,
     maps |-> [k \in {"atlas"} |->
                 [digital_id |-> "id", manifest |-> "manifest",
                  filename_segments |-> filename_segments,
                  path_segments |-> path_segments]]]

Lists(S) == UNION {[1..n -> S] : n \in 0..MaxSegments}

\* Segments that differ in their index ranges (empty ranges included).
Starts == {0, 1}
RangeSegments ==
    {PathSegment(s_g3290, s_ct000, <<"a">>, s, e, 0) :
        s \in Starts, e \in 0..MaxStop}

\* Segments that differ in part label and zero-fill width, over one range.
Parts == {<<>>, <<"a">>, <<"p",".","1">>}
Labels == {<< <<>>, 0 >>, << <<"a">>, 0 >>, << <<"a">>, 5 >>, << <<"p",".","1">>, 0 >>}
LabelSegments ==
    {PathSegment(s_g3290, s_ct000, l[1], 0, MaxStop, l[2]) : l \in Labels}

\* Segments of a malformed document: a key is missing.
BrokenSegments ==
    {[id_prefix |-> s_ct000, part |-> <<"a">>,
      index |-> [start |-> 0, stop |-> MaxStop, zfill_width |-> 0]],
     [gmd |-> s_g3290, id_prefix |-> s_ct000, part |-> <<"a">>,
      index |-> [start |-> 0, zfill_width |-> 0]]}

GoodSegment == PathSegment(s_g3290, s_ct000, <<"a">>, 0, MaxStop, 3)

\* The runs of main that are explored: a command line and a document.
RunInputs ==
    {[parser |-> Parser("atlas", s_jpg),
      config |-> Config(ServicePaths, AtlasSegments, l)] :
        l \in Lists(RangeSegments) \cup Lists(LabelSegments)}
    \cup
    {[parser |-> Parser("atlas", s_tif),
      config |-> Config(sp, AtlasSegments, <<GoodSegment>>)] :
        sp \in {ServicePaths, ServicePathsNoTif}}
    \cup
    {[parser |-> Parser("atlas", s_jpg),
      config |-> Config(ServicePaths, AtlasSegments, l)] :
        l \in {<<b>> : b \in BrokenSegments}
              \cup {<<GoodSegment, b>> : b \in BrokenSegments}}
    \cup
    {[parser |-> Parser("other", s_jpg),
      config |-> Config(ServicePaths, AtlasSegments, <<GoodSegment>>)]}

Init ==
    /\ \E in \in RunInputs : parser = in.parser /\ config = in.config
    /\ pc = "start"
    /\ seg = 0
    /\ i = 0
    /\ num = <<>>
    /\ url = <<>>
    /\ response = NoResponse
    /\ filepath = NoPath
    /\ logfile = NoPath
    /\ trace = <<>>
    /\ err = "none"
    /\ calls = <<>>

\* --------------------------------------------------------------------- main

map_config == config.maps[parser.key]
path == map_config.path_segments[seg]

LogLine(msg, arg) ==
    [op |-> "log", msg |-> msg, arg |-> arg, seg |-> seg, i |-> i,
     status |-> 0, raised |-> FALSE]
GetCall(u, status, raised) ==
    [op |-> "fetch", msg |-> "GET", arg |-> u, seg |-> seg, i |-> i,
     status |-> status, raised |-> raised]
WriteCall(p, status, raised) ==
    [op |-> "write", msg |-> "wb", arg |-> p.name, seg |-> seg, i |-> i,
     status |-> status, raised |-> raised]

Success(status) == 200 <= status /\ status <= 299
StatusCodes == {200, 404}
HttpErrors ==
    Cardinality({k \in 1..Len(trace) :
        trace[k].op = "fetch" /\ ~trace[k].raised /\ ~Success(trace[k].status)})

\* An uncaught exception: the traceback ends the process.
Raise(e) == pc' = "aborted" /\ err' = e

\* Lines 116-124: parse the command line, read the document, select the map.
ParseArgs ==
    /\ pc = "start"
    /\ IF parser.key \notin DOMAIN config.maps
       THEN Raise("KeyError")
       ELSE pc' = "logger" /\ err' = err
    /\ UNCHANGED <<parser, config, seg, i, num, url, response, filepath,
                   logfile, trace, calls>>

\* Lines 127-150: set up the logger on the log file and start the log.
StartLogger ==
    /\ pc = "logger"
    /\ logfile' = create_filepath(parser.output,
                      create_filename(map_config.filename_segments, <<>>, <<>>, s_log))
    /\ trace' = trace \o <<LogLine("Start run", <<>>),
                           LogLine("Digital Id", <<>>),
                           LogLine("Manifest", <<>>)>>
    /\ pc' = "segments"
    /\ UNCHANGED <<parser, config, seg, i, num, url, response, filepath, err, calls>>

PathKeys == {"gmd", "id_prefix", "part", "index"}
IndexKeys == {"zfill_width", "start", "stop"}

\* Lines 153-160: take the next path segment and read its keys; after the
\* last segment the loop is left.
NextSegment ==
    /\ pc = "segments"
    /\ IF seg = Len(map_config.path_segments)
       THEN pc' = "end" /\ UNCHANGED <<seg, i, err>>
       ELSE LET p == map_config.path_segments[seg + 1] IN
            /\ seg' = seg + 1
            /\ IF PathKeys \subseteq DOMAIN p /\ IndexKeys \subseteq DOMAIN p.index
               THEN i' = p.index.start /\ pc' = "index" /\ err' = err
               ELSE Raise("KeyError") /\ i' = i
    /\ UNCHANGED <<parser, config, num, url, response, filepath, logfile,
                   trace, calls>>

\* A mutant of in_range: the stop is taken as inclusive.
in_range_inclusive(k, stop) == k <= stop

\* range(start, stop, 1): stop is exclusive.
in_range(k, stop) == k < stop

\* Lines 160-165: the next index of the range and its zero-filled token.
NextIndex ==
    /\ pc = "index"
    /\ IF in_range(i, path.index.stop)
       THEN /\ num' = IF path.index.zfill_width > 0
                      THEN zfill(str(i), path.index.zfill_width)
                      ELSE str(i)
            /\ pc' = "fetch"
       ELSE /\ pc' = "segments"
            /\ num' = num
    /\ UNCHANGED <<parser, config, seg, i, url, response, filepath, logfile,
                   trace, err, calls>>

\* A mutant of Fetch: a failed GET is skipped and the loop goes on.
FetchOrSkip ==
    /\ pc = "fetch"
    /\ ~create_url_raises(parser, config)
    /\ LET u == create_url(parser, config, path.gmd, path.id_prefix, num) IN
       /\ url' = u
       /\ \/ /\ trace' = Append(trace, GetCall(u, 0, TRUE))
             /\ i' = i + 1
             /\ pc' = "index"
             /\ UNCHANGED <<response, err>>
          \/ /\ \E status \in StatusCodes :
                   /\ Success(status) \/ HttpErrors < MaxHttpErrors
                   /\ response' = [status_code |-> status]
                   /\ trace' = Append(trace, GetCall(u, status, FALSE))
             /\ pc' = "log_url"
             /\ UNCHANGED <<i, err>>
    /\ UNCHANGED <<parser, config, seg, num, filepath, logfile, calls>>

\* Lines 168-169: build the URL and GET it.  requests.get raises on a network
\* failure and returns the response whatever its status; nothing looks at
\* the status afterwards.
Fetch ==
    /\ pc = "fetch"
    /\ IF create_url_raises(parser, config)
       THEN /\ Raise("KeyError")
            /\ UNCHANGED <<url, response, trace>>
       ELSE LET u == create_url(parser, config, path.gmd, path.id_prefix, num) IN
            /\ url' = u
            /\ \/ /\ trace' = Append(trace, GetCall(u, 0, TRUE))
                  /\ Raise("RequestException")
                  /\ response' = response
               \/ /\ \E status \in StatusCodes :
                        /\ Success(status) \/ HttpErrors < MaxHttpErrors
                        /\ response' = [status_code |-> status]
                        /\ trace' = Append(trace, GetCall(u, status, FALSE))
                  /\ pc' = "log_url"
                  /\ err' = err
    /\ UNCHANGED <<parser, config, seg, i, num, filepath, logfile, calls>>

\* Line 172: log the URL, after the GET has returned.
LogUrl ==
    /\ pc = "log_url"
    /\ trace' = Append(trace, LogLine("Target URL", url))
    /\ pc' = "filename"
    /\ UNCHANGED <<parser, config, seg, i, num, url, response, filepath,
                   logfile, err, calls>>

\* Lines 175-179: build the file name and path, log the name.
RenameImage ==
    /\ pc = "filename"
    /\ LET fp == create_filepath(parser.output,
                     create_filename(map_config.filename_segments, path.part,
                                     num, parser.format)) IN
       /\ filepath' = fp
       /\ trace' = Append(trace, LogLine("Image renamed to", fp.name))
    /\ pc' = "write"
    /\ UNCHANGED <<parser, config, seg, i, num, url, response, logfile, err, calls>>

\* Line 182: write the response body to the file; the loop then steps to the
\* next index.  An OSError of the write is not caught.
WriteFile ==
    /\ pc = "write"
    /\ \/ /\ trace' = Append(trace, WriteCall(filepath, response.status_code, FALSE))
          /\ i' = i + 1
          /\ pc' = "index"
          /\ err' = err
       \/ /\ trace' = Append(trace, WriteCall(filepath, response.status_code, TRUE))
          /\ Raise("OSError")
          /\ i' = i
    /\ UNCHANGED <<parser, config, seg, num, url, response, filepath, logfile, calls>>

\* Line 186: the last log line; main returns.
EndRun ==
    /\ pc = "end"
    /\ trace' = Append(trace, LogLine("End run", <<>>))
    /\ pc' = "done"
    /\ UNCHANGED <<parser, config, seg, i, num, url, response, filepath,
                   logfile, err, calls>>

Next ==
    \/ ParseArgs
    \/ StartLogger
    \/ NextSegment
    \/ NextIndex
    \/ Fetch
    \/ LogUrl
    \/ RenameImage
    \/ WriteFile
    \/ EndRun

Spec == Init /\ [][Next]_vars

\* ------------------------------------------------ the builders, on their own

Idle ==
    /\ pc = "idle"
    /\ seg = 0
    /\ i = 0
    /\ num = <<>>
    /\ url = <<>>
    /\ response = NoResponse
    /\ filepath = NoPath
    /\ logfile = NoPath
    /\ trace = <<>>
    /\ err = "none"
    /\ calls = <<>>

\* The last two calls are kept.
Push(c) == IF Len(calls) < 2 THEN Append(calls, c) ELSE <<calls[2], c>>

NameLists == {<<s_atlas, s_ward1>>, <<s_atlas>>, <<s_st_louis>>}
Years == {0, 1925}
Volumes == {<<>>, <<"2">>, <<"1",".","5">>}
Nums == {<<>>, <<"7">>, <<"1","2">>, <<"0","0","0","7">>, <<"0","0","0","0","7">>}
FileFormats == {s_log, s_jpg}

FilenameInit ==
    /\ parser = Parser("atlas", s_jpg)
    /\ \E n \in NameLists, y \in Years, v \in Volumes :
          config = Config(ServicePaths, FilenameSegments(n, y, v), <<>>)
    /\ Idle

\* create_filename(name_segments, part, num, format), called directly.
CallCreateFilename ==
    /\ pc = "idle"
    /\ \E part \in Parts, n \in Nums, format \in FileFormats :
          calls' = Push([fn |-> "create_filename",
                         name_segments |-> map_config.filename_segments,
                         part |-> part, num |-> n, format |-> format,
                         result |-> create_filename(map_config.filename_segments,
                                                    part, n, format)])
    /\ UNCHANGED <<pc, parser, config, seg, i, num, url, response, filepath,
                   logfile, trace, err>>

FilenameNext == CallCreateFilename

FilenameSpec == FilenameInit /\ [][FilenameNext]_vars

UrlFormats == {s_jpg, s_png, s_tif, s_gif, s_jp2}
UrlServicePaths ==
    {[f \in UrlFormats |->
        IF f \in {s_jpg, s_png} THEN s_iiif ELSE IF f = s_tif THEN s_tif ELSE s_storage],
     ServicePathsNoTif}
Sizes == {25, 100}
Rotations == {0, 90}
Gmds == {s_gmd, s_g3290, <<"a",":","b",":","c">>}
IdPrefixes == {<<>>, s_ct000}
UrlNums == {<<"7">>, <<"0","0","3">>, <<"0","0","0","1">>}

UrlInit ==
    /\ \E f \in UrlFormats, sz \in Sizes, r \in Rotations :
          parser = [Parser("atlas", f) EXCEPT !.size = sz, !.rotation_degrees = r]
    /\ \E sp \in UrlServicePaths : config = Config(sp, AtlasSegments, <<>>)
    /\ Idle

\* create_url(parser, config, gmd, id_prefix, num), called directly; an
\* unconfigured format raises KeyError and no URL is returned.
CallCreateUrl ==
    /\ pc = "idle"
    /\ \E gmd \in Gmds, id_prefix \in IdPrefixes, n \in UrlNums :
          calls' = Push([fn |-> "create_url", gmd |-> gmd,
                         id_prefix |-> id_prefix, num |-> n,
                         raised |-> create_url_raises(parser, config),
                         result |-> IF create_url_raises(parser, config) THEN <<>>
                                    ELSE create_url(parser, config, gmd, id_prefix, n)])
    /\ UNCHANGED <<pc, parser, config, seg, i, num, url, response, filepath,
                   logfile, trace, err>>

UrlNext == CallCreateUrl

UrlSpec == UrlInit /\ [][UrlNext]_vars

\* ------------------------------------------------------------------- claims

Events == 1..Len(trace)
IsFetch(k) == trace[k].op = "fetch"
IsWrite(k) == trace[k].op = "write"
IsLog(k, msg) == trace[k].op = "log" /\ trace[k].msg = msg
Failed(k) == (IsFetch(k) \/ IsWrite(k)) /\ trace[k].raised

\* The GETs and writes of the trace, in order, as <<op, segment, index>>.
Work ==
    LET IsWork(e) == e.op \in {"fetch", "write"}
        w == SelectSeq(trace, IsWork)
    IN [k \in 1..Len(w) |-> <<w[k].op, w[k].seg, w[k].i>>]

WellFormed(p) == PathKeys \subseteq DOMAIN p /\ IndexKeys \subseteq DOMAIN p.index

\* One fetch and one write for each index start, start+1, ..., stop-1.
RECURSIVE CyclesFrom(_, _, _)
CyclesFrom(s, k, stop) ==
    IF k >= stop THEN <<>>
    ELSE << <<"fetch", s, k>>, <<"write", s, k>> >> \o CyclesFrom(s, k + 1, stop)

\* The work of a whole run: the segments in document order, up to the first
\* segment that cannot be read.
RECURSIVE Enumerated(_, _)
Enumerated(segments, s) ==
    IF s > Len(segments) \/ ~WellFormed(segments[s]) THEN <<>>
    ELSE CyclesFrom(s, segments[s].index.start, segments[s].index.stop)
             \o Enumerated(segments, s + 1)

IsPrefix(a, b) == Len(a) <= Len(b) /\ SubSeq(b, 1, Len(a)) = a

\* main has selected the collection (line 123 did not raise).
Running == pc \notin {"start", "idle"} /\ parser.key \in DOMAIN config.maps

\* C1: a GET answered with a non-2xx status stops the run: no file is written
\* for that index, and no later GET or write happens.
C1_StopOnHttpError ==
    \A k \in Events :
        (IsFetch(k) /\ ~trace[k].raised /\ ~Success(trace[k].status))
            => \A l \in Events : l > k => ~(IsFetch(l) \/ IsWrite(l))

\* C2: a GET or a write that raises ends the run: the failure is the last
\* entry of the trace (no GET, write or log line follows, 'End run' included)
\* and the run is aborted; a run that reaches its end has had no failure and
\* has done the work of every enumerated index.
C2_FailureAborts ==
    /\ \A k \in Events : Failed(k) => k = Len(trace) /\ pc = "aborted"
    /\ pc = "done" =>
          /\ \A k \in Events : ~Failed(k)
          /\ Work = Enumerated(map_config.path_segments, 1)

\* A GET raised at the second index of a run, after the first index's file
\* was written.
C2_Witness ==
    /\ pc = "aborted"
    /\ err = "RequestException"
    /\ \E k, l \in Events : k < l /\ IsWrite(k) /\ Failed(l) /\ IsFetch(l)

\* C3: per index the order is URL, 'Target URL' line, GET, file name,
\* 'Image renamed' line, write: every GET in the trace is preceded by its
\* 'Target URL' line and every write by its 'Image renamed' line.
C3_LoggedBeforeAttempt ==
    \A k \in Events :
        /\ IsFetch(k) =>
              \E j \in Events : /\ j < k
                                /\ IsLog(j, "Target URL")
                                /\ trace[j].arg = trace[k].arg
                                /\ trace[j].seg = trace[k].seg
                                /\ trace[j].i = trace[k].i
        /\ IsWrite(k) =>
              \E j \in Events : /\ j < k
                                /\ IsLog(j, "Image renamed to")
                                /\ trace[j].arg = trace[k].arg
                                /\ trace[j].seg = trace[k].seg
                                /\ trace[j].i = trace[k].i

\* C4: the work done is at every moment a prefix of: segments in document
\* order, each index start <= i < stop once, ascending, fetch then write; a
\* run that ends has done exactly that work, without a failure, and its one
\* 'End run' line is the last entry of its trace.
C4_SequentialEnumeration ==
    /\ Running => IsPrefix(Work, Enumerated(map_config.path_segments, 1))
    /\ pc = "done" =>
          /\ Work = Enumerated(map_config.path_segments, 1)
          /\ IsLog(Len(trace), "End run")
          /\ \A k \in Events : IsLog(k, "End run") => k = Len(trace)

\* A finished run over two segments, one of them with an empty range, that
\* fetched and wrote two indices.
C4_Witness ==
    /\ pc = "done"
    /\ Len(map_config.path_segments) = 2
    /\ \E s \in 1..2 : map_config.path_segments[s].index.start
                          >= map_config.path_segments[s].index.stop
    /\ Len(Work) = 4

\* C5: a configuration error is raised before any network activity: a run
\* ended by a KeyError has made no GET.
C5_ConfigErrorBeforeNetwork ==
    err = "KeyError" => \A k \in Events : ~IsFetch(k)

\* C6: two iterations of one run write the same file name exactly when they
\* have the same part and the same index.
C6_UniqueFilenames ==
    Running => \A k, l \in Events :
        (k # l /\ IsWrite(k) /\ IsWrite(l)) =>
            ((trace[k].arg = trace[l].arg)
                <=> (/\ map_config.path_segments[trace[k].seg].part
                          = map_config.path_segments[trace[l].seg].part
                     /\ trace[k].i = trace[l].i))

\* The direct calls of a builder that are held in calls.
FilenameCalls == {k \in 1..Len(calls) : calls[k].fn = "create_filename"}
UrlCalls == {k \in 1..Len(calls) : calls[k].fn = "create_url" /\ ~calls[k].raised}

\* The present parts of a file name, in the order the claims give them.
Present(x) == IF x = <<>> THEN <<>> ELSE <<x>>
YearPart(y) == IF y = 0 THEN <<>> ELSE <<str(y)>>
VolPart(v) == IF v = <<>> THEN <<>> ELSE <<s_vol \o v>>
LeftPad4(n) == IF Len(n) >= 4 THEN n ELSE [j \in 1..(4 - Len(n)) |-> "0"] \o n
PaddedIndex(n) == IF n = <<>> THEN <<>> ELSE <<LeftPad4(n)>>

\* C7: for a non-log format the result is the '-'-join of the name parts, the
\* year, 'vol_{volume}' twice, the part and the index left-padded with '0'
\* to at least 4 characters, followed by '.{format}'.
C7_ImageFilename ==
    \A k \in FilenameCalls :
        LET c == calls[k] IN
        c.format # s_log =>
            c.result = join(c.name_segments.name
                              \o YearPart(c.name_segments.year)
                              \o VolPart(c.name_segments.vol)
                              \o VolPart(c.name_segments.vol)
                              \o Present(c.part)
                              \o PaddedIndex(c.num), "-")
                         \o <<".">> \o c.format

\* C8: for format 'log' the result is the '-'-join of the name parts, the year
\* and one 'vol_{volume}', followed by '.log', and two calls that differ only
\* in part and index return the same name.
C8_LogFilename ==
    /\ \A k \in FilenameCalls :
          LET c == calls[k] IN
          c.format = s_log =>
              c.result = join(c.name_segments.name
                                \o YearPart(c.name_segments.year)
                                \o VolPart(c.name_segments.vol), "-")
                           \o <<".">> \o s_log
    /\ \A k, l \in FilenameCalls :
          (/\ calls[k].format = s_log
           /\ calls[l].format = s_log
           /\ calls[k].name_segments = calls[l].name_segments)
              => calls[k].result = calls[l].result

Colons(t) == Cardinality({j \in 1..Len(t) : t[j] = ":"})

\* The length of scheme://subdomain.domain/ at the head of a URL.
HostLen == Len(config.protocol) + 3 + Len(config.subdomain) + 1 + Len(config.domain) + 1

\* The length of /region/pct:size/rotation/quality.format at its end.
ParametersLen ==
    1 + Len(parser.region) + 1 + 4 + Len(str(parser.size)) + 1
      + Len(str(parser.rotation_degrees)) + 1 + Len(parser.quality) + 1
      + Len(parser.format)

\* A tiled-scheme URL from after the host's '/' up to the region segment.
Identifier(u) == SubSeq(u, HostLen + 1, Len(u) - ParametersLen)

Tiled == parser.format \notin RawFormats

\* C9: a tiled-scheme URL has exactly two ':' before the region segment (the
\* ':' of the scheme's '://' left aside).
C9_TwoColons ==
    \A k \in UrlCalls : Tiled => Colons(Identifier(calls[k].result)) = 2

\* C9, as amended: create_url puts one ':' after the service path and one
\* after gmd; with the ':' that service path, gmd, id prefix and index bring
\* themselves, these are all the ':' between the host and the region segment.
C9_TwoSeparatorsAdded ==
    \A k \in UrlCalls :
        LET c == calls[k]
            sp == config.service_path[parser.format]
            id == Identifier(c.result)
        IN Tiled =>
            /\ Colons(id) = 2 + Colons(sp) + Colons(c.gmd)
                              + Colons(c.id_prefix) + Colons(c.num)
            /\ Len(id) = Len(sp) + 1 + Len(c.gmd) + 1 + Len(c.id_prefix) + Len(c.num)
            /\ id[Len(sp) + 1] = ":"
            /\ id[Len(sp) + 1 + Len(c.gmd) + 1] = ":"
            /\ SubSeq(id, Len(sp) + 2, Len(sp) + 1 + Len(c.gmd)) = c.gmd

\* A jpg URL was built for gmd g3290:g3290, prefix ct000 and index 003.
C9_Witness ==
    \E k \in UrlCalls :
        /\ parser.format = s_jpg
        /\ calls[k].gmd = s_g3290
        /\ calls[k].id_prefix = s_ct000
        /\ calls[k].num = <<"0","0","3">>
        /\ Identifier(calls[k].result) = s_iiif \o <<":">> \o s_g3290 \o <<":">>
                                           \o s_ct000 \o <<"0","0","3">>

\* C10: for gif, jp2 and tif the URL is protocol://subdomain.domain/
\* service_path[format]/gmd-with-':'-as-'/'/idPrefix+index.format; no ':' of
\* gmd is left in it, id prefix and index are verbatim.
C10_RawUrl ==
    \A k \in UrlCalls :
        LET c == calls[k]
            sp == config.service_path[parser.format]
            u == c.result
            g == HostLen + Len(sp) + 1
        IN ~Tiled =>
            /\ u = config.protocol \o <<":","/","/">> \o config.subdomain
                     \o <<".">> \o config.domain \o <<"/">> \o sp \o <<"/">>
                     \o [j \in 1..Len(c.gmd) |->
                            IF c.gmd[j] = ":" THEN "/" ELSE c.gmd[j]]
                     \o <<"/">> \o c.id_prefix \o c.num \o <<".">> \o parser.format
            /\ \A j \in 1..Len(c.gmd) : u[g + j] # ":"
            /\ SubSeq(u, g + Len(c.gmd) + 2,
                      g + Len(c.gmd) + 1 + Len(c.id_prefix) + Len(c.num))
                   = c.id_prefix \o c.num

\* https://tile.loc.gov/tif/g3290/g3290/ct000003.tif was built from gmd
\* g3290:g3290, prefix ct000, index 003 and format tif.
C10_Witness ==
    \E k \in UrlCalls :
        /\ parser.format = s_tif
        /\ calls[k].gmd = s_g3290
        /\ calls[k].id_prefix = s_ct000
        /\ calls[k].num = <<"0","0","3">>
        /\ calls[k].result =
              <<"h","t","t","p","s",":","/","/","t","i","l","e",".","l","o","c",
                ".","g","o","v","/","t","i","f","/","g","3","2","9","0","/","g",
                "3","2","9","0","/","c","t","0","0","0","0","0","3",".","t","i","f">>

====
